---- MODULE Spec2Model ----
(***************************************************************************)
(* Model of the request / pagination / error-mapping pipeline of the       *)
(* go-asana client (src/asana/asana.go, webhook.go, task.go, section.go).  *)
(*                                                                         *)
(* One operation of the client runs at a time.  A list operation is the    *)
(* loop of Client.pagenate (or the inline loop of Client.GetWebhooks); a   *)
(* get-one operation is a single Client.Request.  Each request is split at *)
(* the call of the transport (c.doer.Do): RequestSend is the part of       *)
(* Client.request before the call, and the step actions are the part after *)
(* it together with the caller's code up to the next transport call.       *)
(***************************************************************************)
EXTENDS Integers, Sequences, FiniteSets, TLC

VARIABLES
    pc,         \* "idle", "send", "wait", "done" or "panic"
    op,         \* the running operation: [kind, method, path, segs, data,
                \* form, opt, dest], opt being the argument passed ("nil" or
                \* "caller"), dest the content of the destination v before
                \* the call
    heap,       \* Filter objects: heap.caller (the caller's), heap.copy (newOpt)
    filter0,    \* the caller's Filter as it was built, before any call
    optRef,     \* the loop's opt variable: "nil", "caller" or "copy"
    acc,        \* the accumulated slice (rets / webhooks)
    sent,       \* the requests handed to the transport by this operation
    pages,      \* [data, next] of the successful pages the server returned
    lastResp,   \* the last response of the transport
    lastOut,    \* what Client.request returned for it
    result,     \* what the operation returned to its caller
    client,     \* the Client: [doer, BaseURL, UserAgent]
    other,      \* the locals of a second operation running on the same Client
                \* while it is not the one taking a step (see Switch)
    bodies,     \* for each response the transport gave this operation, the
                \* number of times its body has been closed
    cf          \* a call of Task.GetCustomFieldValue: [task, name, called,
                \* value, err]

vars == <<pc, op, heap, filter0, optRef, acc, sent, pages,
          lastResp, lastOut, result, client, other, bodies, cf>>

(***************************************************************************)
(* Bounds                                                                  *)
(***************************************************************************)
\* cap on the requests of one operation (the client itself has none)
MaxRequests == 3

(***************************************************************************)
(* Program constants                                                       *)
(***************************************************************************)
StatusUnauthorized == 401

libraryVersion == "0.1"
userAgent == "go-asana/" \o libraryVersion
defaultBaseURL == "https://app.asana.com/api/1.0/"

\* NewClient(doer): the Client every operation runs on
NewClient(doer) ==
    [doer |-> doer, BaseURL |-> defaultBaseURL, UserAgent |-> userAgent]

DefaultKeys == {"tags", "users", "projects", "workspaces", "tasks"}

\* var defaultOptFields: a Go map; a missing key yields the nil slice.
defaultOptFields(path) ==
    CASE path = "tags"       -> <<"name", "color", "notes">>
      [] path = "users"      -> <<"name", "email", "photo">>
      [] path = "projects"   -> <<"name", "color", "archived">>
      [] path = "workspaces" -> <<"name", "is_organization">>
      [] path = "tasks"      -> <<"name", "assignee", "assignee_status",
                                  "completed", "parent">>
      [] OTHER               -> <<>>

(***************************************************************************)
(* Filter                                                                  *)
(***************************************************************************)
ZeroFilter ==
    [Archived |-> FALSE, Assignee |-> 0, Project |-> 0, Workspace |-> 0,
     CompletedSince |-> "", ModifiedSince |-> "", OptFields |-> <<>>,
     OptExpand |-> <<>>, Offset |-> "", Limit |-> 0]

\* the Filters a caller builds in this model
Filters ==
    { ZeroFilter,
      [ZeroFilter EXCEPT !.OptFields = <<"notes", "name">>],
      [ZeroFilter EXCEPT !.Offset = "off0", !.Limit = 2],
      [ZeroFilter EXCEPT !.OptFields = <<"gid">>, !.Offset = "off0",
                         !.Archived = TRUE, !.Project = 7,
                         !.CompletedSince = "now",
                         !.OptExpand = <<"assignee", "parent">>] }

ParamNames ==
    {"archived", "assignee", "project", "workspace", "completed_since",
     "modified_since", "opt_fields", "opt_expand", "offset", "limit"}

RECURSIVE JoinWith(_, _)
\* strings.Join(s, sep)
JoinWith(s, sep) ==
    IF s = <<>> THEN ""
    ELSE IF Len(s) = 1 THEN s[1]
    ELSE s[1] \o sep \o JoinWith(Tail(s), sep)

IntString(n) == IF n = 0 THEN "" ELSE ToString(n)

\* the value go-querystring encodes for one `url:"...,omitempty"` field of
\* the Filter; "" stands for a field that is empty and therefore omitted
ParamValue(f, k) ==
    CASE k = "archived"        -> IF f.Archived THEN "true" ELSE ""
      [] k = "assignee"        -> IntString(f.Assignee)
      [] k = "project"         -> IntString(f.Project)
      [] k = "workspace"       -> IntString(f.Workspace)
      [] k = "completed_since" -> f.CompletedSince
      [] k = "modified_since"  -> f.ModifiedSince
      [] k = "opt_fields"      -> JoinWith(f.OptFields, ",")
      [] k = "opt_expand"      -> JoinWith(f.OptExpand, ",")
      [] k = "offset"          -> f.Offset
      [] k = "limit"           -> IntString(f.Limit)

\* addOptions: the query parameters of the request URL
addOptions(f) ==
    [k \in {n \in ParamNames : ParamValue(f, n) # ""} |-> ParamValue(f, k)]

(***************************************************************************)
(* Resource paths.  A path is built by fmt.Sprintf from segments; the      *)
(* string handed to Client.request is the segments joined by "/".          *)
(***************************************************************************)
PathString(segs) == JoinWith(segs, "/")

(***************************************************************************)
(* Requests: the part of Client.request before the transport is called     *)
(***************************************************************************)
NoData == ""
NoForm == ""

\* requestOpt without the default field selection
requestOptNoDefaults(h, ref, path) ==
    [heap |-> h, eff |-> IF ref = "nil" THEN ZeroFilter ELSE h[ref]]

\* requestOpt with the defaults of the path put before the caller's fields
requestOptMergeDefaults(h, ref, path) ==
    LET o == IF ref = "nil" THEN ZeroFilter ELSE h[ref]
    IN  [heap |-> h,
         eff  |-> [o EXCEPT !.OptFields = defaultOptFields(path) \o o.OptFields]]

\* the Filter Client.request encodes, and the heap after it chose it:
\* a nil opt becomes a fresh &Filter{}; an empty OptFields is filled with the
\* defaults of the path on a copy (newOpt), never on the object opt points to
requestOpt(h, ref, path) ==
    LET o == IF ref = "nil" THEN ZeroFilter ELSE h[ref]
    IN  IF Len(o.OptFields) = 0
        THEN [heap |-> h,
              eff  |-> [o EXCEPT !.OptFields = defaultOptFields(path)]]
        ELSE [heap |-> h, eff |-> o]

\* requestBody with the form taking precedence over the data
requestBodyFormFirst(data, form) ==
    IF form # NoForm
    THEN [kind |-> "form", content |-> form,
          contentType |-> "application/x-www-form-urlencoded"]
    ELSE IF data # NoData
    THEN [kind |-> "json", content |-> "{\"data\":" \o data \o "}",
          contentType |-> "application/json"]
    ELSE [kind |-> "none", content |-> "", contentType |-> ""]

\* body and Content-Type: data wins over form
requestBody(data, form) ==
    IF data # NoData
    THEN [kind |-> "json", content |-> "{\"data\":" \o data \o "}",
          contentType |-> "application/json"]
    ELSE IF form # NoForm
    THEN [kind |-> "form", content |-> form,
          contentType |-> "application/x-www-form-urlencoded"]
    ELSE [kind |-> "none", content |-> "", contentType |-> ""]

\* buildRequest that leaves the User-Agent to the HTTP library
buildRequestDefaultAgent(c, method, path, data, form, eff) ==
    [method |-> method, url |-> c.BaseURL \o path, path |-> path,
     query |-> addOptions(eff), bodyKind |-> requestBody(data, form).kind,
     body |-> requestBody(data, form).content,
     contentType |-> requestBody(data, form).contentType,
     userAgent |-> "Go-http-client/1.1"]

\* the *http.Request handed to c.doer.Do: the URL is c.BaseURL resolved
\* with the path and the query, the User-Agent is c.UserAgent
buildRequest(c, method, path, data, form, eff) ==
    [method      |-> method,
     url         |-> c.BaseURL \o path,
     path        |-> path,
     query       |-> addOptions(eff),
     bodyKind    |-> requestBody(data, form).kind,
     body        |-> requestBody(data, form).content,
     contentType |-> requestBody(data, form).contentType,
     userAgent   |-> c.UserAgent]

(***************************************************************************)
(* Responses of the transport                                              *)
(***************************************************************************)
NoCursor == [present |-> FALSE, offset |-> ""]
Cursor(o) == [present |-> TRUE, offset |-> o]

\* offsets of the cursors the server issues (opaque, non-empty tokens)
Offsets == {"off1", "off2"}
Cursors == {NoCursor} \cup {Cursor(o) : o \in Offsets}

E1 == [phrase |-> "Not Found", message |-> "no such object"]
E2 == [phrase |-> "Bad Request", message |-> "bad field"]

\* the element sequences of a page ("data")
Pages == { <<>>, <<"a", "b">>, <<"c">> }

Statuses == {200, StatusUnauthorized, 404}

\* Response bodies.  kind "ok": a well-formed envelope.  kind "type": valid
\* JSON with a value of the wrong type somewhere: json.Decoder.Decode fills in
\* what it can (the fields given here) and reports an error.  kind "syntax":
\* not JSON: nothing is decoded and an error is reported.
Bodies ==
    [kind : {"ok"}, data : Pages, next : Cursors, errors : {<<>>}]
    \cup [kind : {"ok"}, data : {<<>>}, next : {NoCursor, Cursor("off1")},
          errors : {<<E1>>, <<E1, E2>>}]
    \cup [kind : {"type"}, data : {<<>>, <<"a", "b">>},
          next : {NoCursor, Cursor("off1")}, errors : {<<>>, <<E2, E1>>}]
    \cup [kind : {"syntax"}, data : {<<>>}, next : {NoCursor}, errors : {<<>>}]

HTTPResponses ==
    { [tfail |-> "", status |-> s, kind |-> b.kind, data |-> b.data,
       next |-> b.next, errors |-> b.errors] : s \in Statuses, b \in Bodies }

\* the transport returns an error instead of a response
TransportFailures ==
    { [tfail |-> e, status |-> 0, kind |-> "syntax",
       data |-> <<>>, next |-> NoCursor, errors |-> <<>>] :
      e \in {"connection refused", "context canceled"} }

Responses == HTTPResponses \cup TransportFailures

NoResponse ==
    [tfail |-> "", status |-> 0, kind |-> "syntax", data |-> <<>>,
     next |-> NoCursor, errors |-> <<>>]

(***************************************************************************)
(* Errors                                                                  *)
(***************************************************************************)
NoErr == [kind |-> "nil", records |-> <<>>, code |-> 0, text |-> ""]
ErrUnauthorized ==
    [kind |-> "ErrUnauthorized", records |-> <<>>, code |-> 0,
     text |-> "asana: unauthorized"]
ErrorsOf(records, code) ==
    [kind |-> "Errors", records |-> records, code |-> code, text |-> ""]
DecodeError(kind) ==
    [kind |-> "decode", records |-> <<>>, code |-> 0, text |-> kind]
TransportError(e) ==
    [kind |-> "transport", records |-> <<>>, code |-> 0, text |-> e]
\* the errors of url.Parse, json.Marshal and http.NewRequest
UrlError(path) ==
    [kind |-> "url", records |-> <<>>, code |-> 0,
     text |-> "parse " \o path \o ": invalid URL escape"]
MarshalError ==
    [kind |-> "marshal", records |-> <<>>, code |-> 0,
     text |-> "json: unsupported type"]
MethodError(method) ==
    [kind |-> "method", records |-> <<>>, code |-> 0,
     text |-> "net/http: invalid method " \o method]

(***************************************************************************)
(* Client.request before the transport is called: what can fail            *)
(***************************************************************************)
HexDigits ==
    {"0", "1", "2", "3", "4", "5", "6", "7", "8", "9",
     "a", "b", "c", "d", "e", "f", "A", "B", "C", "D", "E", "F"}
ishex(ch) == ch \in HexDigits

\* url.Parse accepts the path: every "%" in it starts an escape of two
\* hexadecimal digits (the paths of this model hold no control character, no
\* "?" and no "#", and their first segment holds no colon)
validEscapes(path) ==
    \A i \in 1..Len(path) :
        SubSeq(path, i, i) = "%" =>
            /\ i + 2 <= Len(path)
            /\ ishex(SubSeq(path, i + 1, i + 1))
            /\ ishex(SubSeq(path, i + 2, i + 2))

\* a payload json.Marshal has no encoding for (a map that holds a channel)
UnsupportedValue == "map[ch:chan]"
jsonSupported(data) == data # UnsupportedValue

\* http.NewRequest accepts the method: a non-empty token
TokenChars ==
    {"A", "B", "C", "D", "E", "F", "G", "H", "I", "J", "K", "L", "M", "N",
     "O", "P", "Q", "R", "S", "T", "U", "V", "W", "X", "Y", "Z", "-", "_"}
validMethod(method) ==
    /\ Len(method) > 0
    /\ \A i \in 1..Len(method) : SubSeq(method, i, i) \in TokenChars

\* requestBuildErr that drops the error of json.Marshal
requestBuildErrIgnoreMarshal(method, path, data) ==
    IF ~validEscapes(path) THEN UrlError(path)
    ELSE IF ~validMethod(method) THEN MethodError(method)
    ELSE NoErr

\* the error Client.request returns before it calls the transport, NoErr
\* when the request can be built: addOptions and url.Parse, then
\* json.Marshal, then http.NewRequest
requestBuildErr(method, path, data) ==
    IF ~validEscapes(path) THEN UrlError(path)
    ELSE IF data # NoData /\ ~jsonSupported(data) THEN MarshalError
    ELSE IF ~validMethod(method) THEN MethodError(method)
    ELSE NoErr

(***************************************************************************)
(* Client.request after the transport returned: decoding and error mapping *)
(***************************************************************************)
\* json.NewDecoder(resp.Body).Decode(res) with res = &Response{Data: v}
Decode(resp, v) ==
    IF resp.kind = "syntax"
    THEN [v |-> v, next |-> NoCursor, errors |-> <<>>,
          err |-> DecodeError("syntax")]
    ELSE [v |-> resp.data, next |-> resp.next, errors |-> resp.errors,
          err |-> IF resp.kind = "ok" THEN NoErr ELSE DecodeError("type")]

\* requestCloses with resp.Body.Close() called after the 401 test and not
\* deferred
requestClosesAfterStatus(resp) ==
    IF resp.tfail # "" THEN 0
    ELSE IF resp.status = StatusUnauthorized THEN 0
    ELSE 1

\* the number of calls of resp.Body.Close() Client.request makes for a
\* response: none when c.doer.Do returned an error (it returns before the
\* defer statement), the deferred one on every return after it
requestCloses(resp) ==
    IF resp.tfail # "" THEN 0
    ELSE IF resp.status = StatusUnauthorized THEN 1
    ELSE 1

\* requestReturn that trusts a 200 status: error records are looked at only
\* for the other statuses
requestReturnTrustOK(resp, v) ==
    IF resp.tfail # ""
    THEN [next |-> NoCursor, err |-> TransportError(resp.tfail), v |-> v]
    ELSE IF resp.status = StatusUnauthorized
    THEN [next |-> NoCursor, err |-> ErrUnauthorized, v |-> v]
    ELSE LET res == Decode(resp, v)
         IN  IF Len(res.errors) > 0 /\ resp.status # 200
             THEN [next |-> NoCursor,
                   err  |-> ErrorsOf(res.errors, resp.status), v |-> res.v]
             ELSE [next |-> res.next, err |-> res.err, v |-> res.v]

\* requestReturn that looks at the error records before the 401 status
requestReturnErrorsFirst(resp, v) ==
    IF resp.tfail # ""
    THEN [next |-> NoCursor, err |-> TransportError(resp.tfail), v |-> v]
    ELSE LET res == Decode(resp, v)
         IN  IF Len(res.errors) > 0
             THEN [next |-> NoCursor,
                   err  |-> ErrorsOf(res.errors, resp.status), v |-> res.v]
             ELSE IF resp.status = StatusUnauthorized
             THEN [next |-> NoCursor, err |-> ErrUnauthorized, v |-> v]
             ELSE [next |-> res.next, err |-> res.err, v |-> res.v]

\* requestReturn that reports only the first error record
requestReturnFirstError(resp, v) ==
    IF resp.tfail # ""
    THEN [next |-> NoCursor, err |-> TransportError(resp.tfail), v |-> v]
    ELSE IF resp.status = StatusUnauthorized
    THEN [next |-> NoCursor, err |-> ErrUnauthorized, v |-> v]
    ELSE LET res == Decode(resp, v)
         IN  IF Len(res.errors) > 0
             THEN [next |-> NoCursor,
                   err  |-> ErrorsOf(<<Head(res.errors)>>, resp.status),
                   v    |-> res.v]
             ELSE [next |-> res.next, err |-> res.err, v |-> res.v]

\* requestReturn that wraps the error of the transport in one of its own
requestReturnWrapTransport(resp, v) ==
    IF resp.tfail # ""
    THEN [next |-> NoCursor, err |-> TransportError("asana: " \o resp.tfail),
          v |-> v]
    ELSE IF resp.status = StatusUnauthorized
    THEN [next |-> NoCursor, err |-> ErrUnauthorized, v |-> v]
    ELSE LET res == Decode(resp, v)
         IN  IF Len(res.errors) > 0
             THEN [next |-> NoCursor,
                   err  |-> ErrorsOf(res.errors, resp.status), v |-> res.v]
             ELSE [next |-> res.next, err |-> res.err, v |-> res.v]

\* requestReturn that makes an Errors value of every failure status
requestReturnStatusError(resp, v) ==
    IF resp.tfail # ""
    THEN [next |-> NoCursor, err |-> TransportError(resp.tfail), v |-> v]
    ELSE IF resp.status = StatusUnauthorized
    THEN [next |-> NoCursor, err |-> ErrUnauthorized, v |-> v]
    ELSE LET res == Decode(resp, v)
         IN  IF Len(res.errors) > 0 \/ resp.status # 200
             THEN [next |-> NoCursor,
                   err  |-> ErrorsOf(res.errors, resp.status), v |-> res.v]
             ELSE [next |-> res.next, err |-> res.err, v |-> res.v]

\* requestReturn that returns the decode error before it looks at the
\* decoded error records
requestReturnDecodeErrFirst(resp, v) ==
    IF resp.tfail # ""
    THEN [next |-> NoCursor, err |-> TransportError(resp.tfail), v |-> v]
    ELSE IF resp.status = StatusUnauthorized
    THEN [next |-> NoCursor, err |-> ErrUnauthorized, v |-> v]
    ELSE LET res == Decode(resp, v)
         IN  IF res.err # NoErr
             THEN [next |-> NoCursor, err |-> res.err, v |-> res.v]
             ELSE IF Len(res.errors) > 0
             THEN [next |-> NoCursor,
                   err  |-> ErrorsOf(res.errors, resp.status), v |-> res.v]
             ELSE [next |-> res.next, err |-> NoErr, v |-> res.v]

\* requestReturn that decodes the body before it looks at the status
requestReturnDecodeFirst(resp, v) ==
    IF resp.tfail # ""
    THEN [next |-> NoCursor, err |-> TransportError(resp.tfail), v |-> v]
    ELSE LET res == Decode(resp, v)
         IN  IF resp.status = StatusUnauthorized
             THEN [next |-> NoCursor, err |-> ErrUnauthorized, v |-> res.v]
             ELSE IF Len(res.errors) > 0
             THEN [next |-> NoCursor,
                   err  |-> ErrorsOf(res.errors, resp.status), v |-> res.v]
             ELSE [next |-> res.next, err |-> res.err, v |-> res.v]

\* requestReturn that hands out data and cursor for status 200 only
requestReturnDataOnOK(resp, v) ==
    IF resp.tfail # ""
    THEN [next |-> NoCursor, err |-> TransportError(resp.tfail), v |-> v]
    ELSE IF resp.status = StatusUnauthorized
    THEN [next |-> NoCursor, err |-> ErrUnauthorized, v |-> v]
    ELSE LET res == Decode(resp, v)
         IN  IF Len(res.errors) > 0
             THEN [next |-> NoCursor,
                   err  |-> ErrorsOf(res.errors, resp.status), v |-> res.v]
             ELSE IF resp.status # 200
             THEN [next |-> NoCursor, err |-> res.err, v |-> v]
             ELSE [next |-> res.next, err |-> res.err, v |-> res.v]

\* what Client.request returns for a response, with v the destination
requestReturn(resp, v) ==
    IF resp.tfail # ""
    THEN [next |-> NoCursor, err |-> TransportError(resp.tfail), v |-> v]
    ELSE IF resp.status = StatusUnauthorized
    THEN [next |-> NoCursor, err |-> ErrUnauthorized, v |-> v]
    ELSE LET res == Decode(resp, v)
         IN  IF Len(res.errors) > 0
             THEN [next |-> NoCursor,
                   err  |-> ErrorsOf(res.errors, resp.status), v |-> res.v]
             ELSE [next |-> res.next, err |-> res.err, v |-> res.v]

(***************************************************************************)
(* The loop of Client.pagenate after Client.request returned               *)
(***************************************************************************)
\* appendSliceValue with the page put in front
appendSliceValuePrepend(a, page) == page \o a

\* reflect.AppendSlice(v, page)
appendSliceValue(a, page) == a \o page

\* advanceOpt writing the offset through opt, without the copy
advanceOptInPlace(h, ref, next) ==
    [heap |-> [h EXCEPT ![ref].Offset = next.offset], ref |-> ref]

\* advanceOpt making a new Filter that holds the offset alone
advanceOptFresh(h, ref, next) ==
    [heap |-> [h EXCEPT !.copy = [ZeroFilter EXCEPT !.Offset = next.offset]],
     ref  |-> "copy"]

\* newOpt := *opt; opt = &newOpt; opt.Offset = next.Offset
\* (opt is not nil here: the nil case is the caller's, see pagenate)
advanceOpt(h, ref, next) ==
    [heap |-> [h EXCEPT !.copy = [h[ref] EXCEPT !.Offset = next.offset]],
     ref  |-> "copy"]

\* listReturn handing out the pages accumulated so far with the error
listReturnPartial(err, rets) ==
    IF err # NoErr
    THEN [returned |-> TRUE, isNil |-> FALSE, value |-> rets, err |-> err]
    ELSE [returned |-> TRUE, isNil |-> FALSE, value |-> rets, err |-> NoErr]

\* what ListTasks, ListWorkspaces, ... return for pagenate's error and rets
listReturn(err, rets) ==
    IF err # NoErr
    THEN [returned |-> TRUE, isNil |-> TRUE, value |-> <<>>, err |-> err]
    ELSE [returned |-> TRUE, isNil |-> FALSE, value |-> rets, err |-> NoErr]

\* pagenate that calls Client.request again when it returned an error
pagenateRetry(h, ref, rets, out) ==
    IF out.err # NoErr
    THEN [pc |-> "send", heap |-> h, ref |-> ref, acc |-> rets,
          result |-> [returned |-> FALSE, isNil |-> TRUE,
                      value |-> <<>>, err |-> NoErr]]
    ELSE IF ~out.next.present
    THEN [pc |-> "done", heap |-> h, ref |-> ref,
          acc |-> appendSliceValue(rets, out.v),
          result |-> listReturn(NoErr, appendSliceValue(rets, out.v))]
    ELSE IF ref = "nil"
    THEN [pc |-> "panic", heap |-> h, ref |-> ref,
          acc |-> appendSliceValue(rets, out.v),
          result |-> [returned |-> FALSE, isNil |-> TRUE,
                      value |-> <<>>, err |-> NoErr]]
    ELSE [pc |-> "send", heap |-> advanceOpt(h, ref, out.next).heap,
          ref |-> advanceOpt(h, ref, out.next).ref,
          acc |-> appendSliceValue(rets, out.v),
          result |-> [returned |-> FALSE, isNil |-> TRUE,
                      value |-> <<>>, err |-> NoErr]]

\* pagenate that looks at the cursor before it looks at the error
pagenateCursorFirst(h, ref, rets, out) ==
    IF out.next.present /\ ref # "nil"
    THEN [pc |-> "send", heap |-> advanceOpt(h, ref, out.next).heap,
          ref |-> advanceOpt(h, ref, out.next).ref,
          acc |-> appendSliceValue(rets, out.v),
          result |-> [returned |-> FALSE, isNil |-> TRUE,
                      value |-> <<>>, err |-> NoErr]]
    ELSE IF out.err # NoErr
    THEN [pc |-> "done", heap |-> h, ref |-> ref, acc |-> rets,
          result |-> listReturn(out.err, rets)]
    ELSE IF out.next.present
    THEN [pc |-> "panic", heap |-> h, ref |-> ref,
          acc |-> appendSliceValue(rets, out.v),
          result |-> [returned |-> FALSE, isNil |-> TRUE,
                      value |-> <<>>, err |-> NoErr]]
    ELSE [pc |-> "done", heap |-> h, ref |-> ref,
          acc |-> appendSliceValue(rets, out.v),
          result |-> listReturn(NoErr, appendSliceValue(rets, out.v))]

\* one turn of the loop of pagenate, from the return of Client.request to the
\* next call of it (pc "send"), the return (pc "done") or the crash on
\* dereferencing a nil opt (pc "panic").  page is a fresh slice (remake).
pagenate(h, ref, rets, out) ==
    IF out.err # NoErr
    THEN [pc |-> "done", heap |-> h, ref |-> ref, acc |-> rets,
          result |-> listReturn(out.err, rets)]
    ELSE LET rets2 == appendSliceValue(rets, out.v)
         IN  IF ~out.next.present
             THEN [pc |-> "done", heap |-> h, ref |-> ref, acc |-> rets2,
                   result |-> listReturn(NoErr, rets2)]
             ELSE IF ref = "nil"
             THEN [pc |-> "panic", heap |-> h, ref |-> ref, acc |-> rets2,
                   result |-> [returned |-> FALSE, isNil |-> TRUE,
                               value |-> <<>>, err |-> NoErr]]
             ELSE [pc |-> "send", heap |-> advanceOpt(h, ref, out.next).heap,
                   ref |-> advanceOpt(h, ref, out.next).ref, acc |-> rets2,
                   result |-> [returned |-> FALSE, isNil |-> TRUE,
                               value |-> <<>>, err |-> NoErr]]

\* the same turn of the inline loop of Client.GetWebhooks
getWebhooksLoop(h, ref, webhooks, out) ==
    IF out.err # NoErr
    THEN [pc |-> "done", heap |-> h, ref |-> ref, acc |-> webhooks,
          result |-> [returned |-> TRUE, isNil |-> TRUE, value |-> <<>>,
                      err |-> out.err]]
    ELSE IF ~out.next.present
    THEN [pc |-> "done", heap |-> h, ref |-> ref, acc |-> webhooks \o out.v,
          result |-> [returned |-> TRUE, isNil |-> FALSE,
                      value |-> webhooks \o out.v, err |-> NoErr]]
    ELSE IF ref = "nil"
    THEN [pc |-> "panic", heap |-> h, ref |-> ref, acc |-> webhooks \o out.v,
          result |-> [returned |-> FALSE, isNil |-> TRUE, value |-> <<>>,
                      err |-> NoErr]]
    ELSE [pc |-> "send",
          heap |-> [h EXCEPT !.copy = [h[ref] EXCEPT !.Offset = out.next.offset]],
          ref |-> "copy", acc |-> webhooks \o out.v,
          result |-> [returned |-> FALSE, isNil |-> TRUE, value |-> <<>>,
                      err |-> NoErr]]

\* what GetTask, GetUserByID, ... return: (*task, err)
getReturn(out) ==
    [returned |-> TRUE, isNil |-> FALSE, value |-> out.v, err |-> out.err]

\* what DeleteTask, DeleteTaskByExternalID, ... return: err alone
execReturn(out) ==
    [returned |-> TRUE, isNil |-> TRUE, value |-> <<>>, err |-> out.err]

(***************************************************************************)
(* State machine                                                           *)
(***************************************************************************)
NoOp ==
    [kind |-> "none", method |-> "", path |-> "", segs |-> <<>>,
     data |-> NoData, form |-> NoForm, opt |-> "nil", dest |-> <<>>]
NoOut == [next |-> NoCursor, err |-> NoErr, v |-> <<>>]
NoResult ==
    [returned |-> FALSE, isNil |-> TRUE, value |-> <<>>, err |-> NoErr]

\* identifiers the caller passes
IDs == {12}
ExternalIDs == {"ABC123", "50%"}
OptArgs == {"nil", "caller"}
\* payloads, given by their JSON encoding (json.Marshal of the value)
TaskUpdates == {"{\"notes\":\"n\"}"}
Targets == {"hook.test"}
TaskFields == {"{\"name\":\"t\"}", UnsupportedValue}

\* a server page as the server sent it: not a transport failure, not 401,
\* a well-formed envelope without error records
IsSuccessPage(resp) ==
    /\ resp.tfail = ""
    /\ resp.status # StatusUnauthorized
    /\ resp.kind = "ok"
    /\ resp.errors = <<>>

(***************************************************************************)
(* Task.GetCustomFieldValue                                                *)
(***************************************************************************)
\* cap on the custom fields of a task
MaxFields == 2

\* the characters U+0023 .. U+005B in order
ASCIIChars ==
    "#$%&'()*+,-./0123456789:;<=>?@ABCDEFGHIJKLMNOPQRSTUVWXYZ["

\* the code point above which, and the surrogate range in which, a number is
\* no valid rune
MaxRune == 1114111
SurrogateMin == 55296
SurrogateMax == 57343

\* string(n) for an integer n: the UTF-8 encoding of the code point n, and
\* of U+FFFD for a number that is no valid code point.  The encodings outside
\* the range of ASCIIChars are written "U+" and the number.
RuneString(n) ==
    IF n >= 35 /\ n <= 91 THEN SubSeq(ASCIIChars, n - 34, n - 34)
    ELSE IF n < 0 \/ n > MaxRune \/ (n >= SurrogateMin /\ n <= SurrogateMax)
    THEN "U+65533"
    ELSE "U+" \o ToString(n)

\* the custom fields of the tasks of this model: the fields of CustomField
\* that GetCustomFieldValue reads
FieldNames == {"prio", "size"}
CustomFields ==
    [Name : FieldNames, Type : {"enum"}, EnumValue : {[Name |-> "High"]},
     TextValue : {""}, NumberValue : {0}]
    \cup [Name : FieldNames, Type : {"text"}, EnumValue : {[Name |-> ""]},
          TextValue : {"hello"}, NumberValue : {0}]
    \cup [Name : FieldNames, Type : {"number"}, EnumValue : {[Name |-> ""]},
          TextValue : {""}, NumberValue : {42, 65}]
    \cup [Name : FieldNames, Type : {"people"}, EnumValue : {[Name |-> ""]},
          TextValue : {""}, NumberValue : {0}]

\* the CustomFields slices of the tasks
FieldLists ==
    UNION { [1..n -> CustomFields] : n \in 0..MaxFields }

RECURSIVE GetCustomFieldValueFrom(_, _)
\* the loop of GetCustomFieldValue over the fields cfs
GetCustomFieldValueFrom(cfs, name) ==
    IF cfs = <<>>
    THEN [value |-> "", err |-> "Custom field '" \o name \o "' not found"]
    ELSE LET field == Head(cfs)
         IN  IF field.Name = name /\ field.Type = "enum"
             THEN [value |-> field.EnumValue.Name, err |-> ""]
             ELSE IF field.Name = name /\ field.Type = "text"
             THEN [value |-> field.TextValue, err |-> ""]
             ELSE IF field.Name = name /\ field.Type = "number"
             THEN [value |-> RuneString(field.NumberValue), err |-> ""]
             ELSE GetCustomFieldValueFrom(Tail(cfs), name)

\* no call of Task.GetCustomFieldValue
NoCustomFieldCall ==
    [task |-> <<>>, name |-> "", called |-> FALSE, value |-> "", err |-> ""]

\* the locals of an operation that has not been called yet
IdleLocals ==
    [pc |-> "idle", op |-> NoOp, optRef |-> "nil", acc |-> <<>>,
     sent |-> <<>>, pages |-> <<>>, lastResp |-> NoResponse,
     lastOut |-> NoOut, result |-> NoResult, copy |-> ZeroFilter,
     bodies |-> <<>>]

Init ==
    /\ pc = "idle"
    /\ op = NoOp
    /\ \E f \in Filters : heap = [caller |-> f, copy |-> ZeroFilter] /\ filter0 = f
    /\ optRef = "nil"
    /\ acc = <<>>
    /\ sent = <<>>
    /\ pages = <<>>
    /\ lastResp = NoResponse
    /\ lastOut = NoOut
    /\ result = NoResult
    /\ client = NewClient("doer")
    /\ other = IdleLocals
    /\ bodies = <<>>
    /\ cf = NoCustomFieldCall

\* a public operation is called: its locals are set up
StartWith(kind, method, segs, data, form, arg, dest) ==
    /\ pc = "idle"
    /\ pc' = "send"
    /\ op' = [kind |-> kind, method |-> method, path |-> PathString(segs),
              segs |-> segs, data |-> data, form |-> form, opt |-> arg,
              dest |-> dest]
    /\ optRef' = arg
    /\ acc' = <<>>
    /\ sent' = <<>>
    /\ pages' = <<>>
    /\ lastResp' = NoResponse
    /\ lastOut' = NoOut
    /\ result' = NoResult
    /\ bodies' = <<>>
    /\ UNCHANGED <<heap, filter0, client, other, cf>>

\* the operations that hand Client.request a destination they have just
\* made (new(Task), a remade page) or none
Start(kind, method, segs, data, form, arg) ==
    StartWith(kind, method, segs, data, form, arg, <<>>)

externalTaskQuery(externalID) == <<"tasks", "external:" \o externalID>>

ListTasks ==
    \E arg \in OptArgs : Start("pagenate", "GET", <<"tasks">>, NoData, NoForm, arg)

ListProjectTasks ==
    \E arg \in OptArgs, id \in IDs :
        Start("pagenate", "GET", <<"projects", ToString(id), "tasks">>,
              NoData, NoForm, arg)

GetWebhooks ==
    \E arg \in OptArgs : Start("webhooks", "GET", <<"webhooks">>, NoData, NoForm, arg)

\* the call of Client.request (or Client.Request) an operation makes, and
\* what it does with the results (kind)
Call(a) == Start(a.kind, a.method, a.segs, a.data, a.form, a.opt)

GetTaskArgs(id, arg) ==
    [kind |-> "get", method |-> "GET", segs |-> <<"tasks", ToString(id)>>,
     data |-> NoData, form |-> NoForm, opt |-> arg]

\* GetTaskByExternalID that does not pass its Filter on
GetTaskByExternalIDArgsNoOpt(externalID, arg) ==
    [kind |-> "get", method |-> "GET", segs |-> externalTaskQuery(externalID),
     data |-> NoData, form |-> NoForm, opt |-> "nil"]

GetTaskByExternalIDArgs(externalID, arg) ==
    [kind |-> "get", method |-> "GET", segs |-> externalTaskQuery(externalID),
     data |-> NoData, form |-> NoForm, opt |-> arg]

UpdateTaskArgs(id, tu, arg) ==
    [kind |-> "get", method |-> "PUT", segs |-> <<"tasks", ToString(id)>>,
     data |-> tu, form |-> NoForm, opt |-> arg]

UpdateTaskByExternalIDArgs(externalID, tu, arg) ==
    [kind |-> "get", method |-> "PUT", segs |-> externalTaskQuery(externalID),
     data |-> tu, form |-> NoForm, opt |-> arg]

DeleteTaskArgs(id, arg) ==
    [kind |-> "exec", method |-> "DELETE", segs |-> <<"tasks", ToString(id)>>,
     data |-> NoData, form |-> NoForm, opt |-> arg]

DeleteTaskByExternalIDArgs(externalID, arg) ==
    [kind |-> "exec", method |-> "DELETE",
     segs |-> externalTaskQuery(externalID),
     data |-> NoData, form |-> NoForm, opt |-> arg]

GetTask ==
    \E arg \in OptArgs, id \in IDs : Call(GetTaskArgs(id, arg))

GetTaskByExternalID ==
    \E arg \in OptArgs, e \in ExternalIDs :
        Call(GetTaskByExternalIDArgs(e, arg))

GetAuthenticatedUser ==
    \E arg \in OptArgs : Start("get", "GET", <<"users", "me">>, NoData, NoForm, arg)

\* the paths and the destination a caller hands to Client.Request
RequestPaths == {<<"tags", "7">>, <<"tags", "%zz">>}
Destinations == {<<"old">>}

\* Client.Request: a GET of the caller's path into the caller's container
Request ==
    \E arg \in OptArgs, segs \in RequestPaths, v \in Destinations :
        StartWith("exec", "GET", segs, NoData, NoForm, arg, v)

UpdateTask ==
    \E arg \in OptArgs, id \in IDs, tu \in TaskUpdates :
        Call(UpdateTaskArgs(id, tu, arg))

UpdateTaskByExternalID ==
    \E arg \in OptArgs, e \in ExternalIDs, tu \in TaskUpdates :
        Call(UpdateTaskByExternalIDArgs(e, tu, arg))

DeleteTask ==
    \E arg \in OptArgs, id \in IDs : Call(DeleteTaskArgs(id, arg))

DeleteTaskByExternalID ==
    \E arg \in OptArgs, e \in ExternalIDs :
        Call(DeleteTaskByExternalIDArgs(e, arg))

\* url.Values{"resource": id, "target": target}.Encode(): sorted by key
webhookForm(id, target) ==
    "resource=" \o ToString(id) \o "&target=" \o target

\* CreateWebhook passes a form and a nil Filter
CreateWebhook ==
    \E id \in IDs, target \in Targets :
        Start("get", "POST", <<"webhooks">>, NoData, webhookForm(id, target), "nil")

\* Client.request called from inside the package with a payload and a form
\* at once, which its doc comment allows ("If both provided form will be
\* omitted"); no exported operation does
RequestDataAndForm ==
    \E arg \in OptArgs, id \in IDs, tu \in TaskUpdates, target \in Targets :
        Start("exec", "POST", <<"tasks">>, tu, webhookForm(id, target), arg)

\* CreateTask takes a map[string]interface{}: json.Marshal can fail on it
CreateTask ==
    \E arg \in OptArgs, fields \in TaskFields :
        Start("get", "POST", <<"tasks">>, fields, NoForm, arg)

\* Client.pagenate called from inside the package with a path that holds a
\* string of the caller's; the exported list operations put numbers only
\* into their paths
PagenatePath ==
    \E arg \in OptArgs, e \in ExternalIDs :
        Start("pagenate", "GET", <<"tasks", "external:" \o e, "stories">>,
              NoData, NoForm, arg)

\* Client.request called from inside the package with a method that is not
\* a token; the exported operations pass GET, POST, PUT and DELETE
RequestMethod ==
    \E arg \in OptArgs, method \in {"PATCH", "BAD METHOD"} :
        Start("exec", method, <<"tasks">>, NoData, NoForm, arg)

\* Client.request returns before c.doer.Do: the request cannot be built.
\* The operation that called it goes on with the error.
RequestFail ==
    /\ pc = "send"
    /\ requestBuildErr(op.method, op.path, op.data) # NoErr
    /\ LET ro  == requestOpt(heap, optRef, op.path)
           out == [next |-> NoCursor,
                   err  |-> requestBuildErr(op.method, op.path, op.data),
                   v    |-> IF op.kind \in {"get", "exec"}
                            THEN op.dest ELSE <<>>]
           nxt == CASE op.kind = "pagenate" ->
                         pagenate(ro.heap, optRef, acc, out)
                    [] op.kind = "webhooks" ->
                         getWebhooksLoop(ro.heap, optRef, acc, out)
                    [] op.kind = "get" ->
                         [pc |-> "done", heap |-> ro.heap, ref |-> optRef,
                          acc |-> acc, result |-> getReturn(out)]
                    [] OTHER ->
                         [pc |-> "done", heap |-> ro.heap, ref |-> optRef,
                          acc |-> acc, result |-> execReturn(out)]
       IN  /\ lastOut' = out
           /\ pc' = nxt.pc
           /\ heap' = nxt.heap
           /\ optRef' = nxt.ref
           /\ acc' = nxt.acc
           /\ result' = nxt.result
    /\ UNCHANGED <<op, filter0, sent, pages, lastResp, client, other, bodies,
                   cf>>

\* Client.request up to c.doer.Do(req): the request is handed to the transport
RequestSend ==
    /\ pc = "send"
    /\ Len(sent) < MaxRequests
    /\ requestBuildErr(op.method, op.path, op.data) = NoErr
    /\ LET ro == requestOpt(heap, optRef, op.path)
       IN  /\ heap' = ro.heap
           /\ sent' = Append(sent, buildRequest(client, op.method, op.path,
                                                op.data, op.form, ro.eff))
    /\ pc' = "wait"
    /\ UNCHANGED <<op, filter0, optRef, acc, pages, lastResp, lastOut, result,
                   client, other, bodies, cf>>

\* the bookkeeping every step shares: the response and request's answer to it
Received(resp, out) ==
    /\ lastResp' = resp
    /\ lastOut' = out
    /\ pages' = IF IsSuccessPage(resp)
                THEN Append(pages, [data |-> resp.data, next |-> resp.next])
                ELSE pages
    /\ bodies' = IF resp.tfail = ""
                 THEN Append(bodies, requestCloses(resp))
                 ELSE bodies

\* the transport answers a request of a pagenate operation
PagenateStepOn(R) ==
    /\ pc = "wait"
    /\ op.kind = "pagenate"
    /\ \E resp \in R :
         LET out == requestReturn(resp, <<>>)
             nxt == pagenate(heap, optRef, acc, out)
         IN  /\ Received(resp, out)
             /\ pc' = nxt.pc
             /\ heap' = nxt.heap
             /\ optRef' = nxt.ref
             /\ acc' = nxt.acc
             /\ result' = nxt.result
    /\ UNCHANGED <<op, filter0, sent, client, other, cf>>

PagenateStep == PagenateStepOn(Responses)

\* the transport answers a request of GetWebhooks
GetWebhooksStepOn(R) ==
    /\ pc = "wait"
    /\ op.kind = "webhooks"
    /\ \E resp \in R :
         LET out == requestReturn(resp, <<>>)
             nxt == getWebhooksLoop(heap, optRef, acc, out)
         IN  /\ Received(resp, out)
             /\ pc' = nxt.pc
             /\ heap' = nxt.heap
             /\ optRef' = nxt.ref
             /\ acc' = nxt.acc
             /\ result' = nxt.result
    /\ UNCHANGED <<op, filter0, sent, client, other, cf>>

GetWebhooksStep == GetWebhooksStepOn(Responses)

\* the transport answers the request of a get-one operation
GetStepOn(R) ==
    /\ pc = "wait"
    /\ op.kind = "get"
    /\ \E resp \in R :
         LET out == requestReturn(resp, op.dest)
         IN  /\ Received(resp, out)
             /\ result' = getReturn(out)
    /\ pc' = "done"
    /\ UNCHANGED <<op, heap, filter0, optRef, acc, sent, client, other, cf>>

GetStep == GetStepOn(Responses)

\* the transport answers the request of an operation that returns err alone
ExecStepOn(R) ==
    /\ pc = "wait"
    /\ op.kind = "exec"
    /\ \E resp \in R :
         LET out == requestReturn(resp, op.dest)
         IN  /\ Received(resp, out)
             /\ result' = execReturn(out)
    /\ pc' = "done"
    /\ UNCHANGED <<op, heap, filter0, optRef, acc, sent, client, other, cf>>

ExecStep == ExecStepOn(Responses)

\* the operation has returned; the caller goes on to its next call with the
\* same Filter object (the operation's locals are gone)
Finish ==
    /\ pc = "done"
    /\ pc' = "idle"
    /\ op' = NoOp
    /\ heap' = [heap EXCEPT !.copy = ZeroFilter]
    /\ optRef' = "nil"
    /\ acc' = <<>>
    /\ sent' = <<>>
    /\ pages' = <<>>
    /\ lastResp' = NoResponse
    /\ lastOut' = NoOut
    /\ result' = NoResult
    /\ bodies' = <<>>
    /\ UNCHANGED <<filter0, client, other, cf>>

Next ==
    \/ ListTasks
    \/ ListProjectTasks
    \/ GetWebhooks
    \/ GetTask
    \/ GetTaskByExternalID
    \/ GetAuthenticatedUser
    \/ UpdateTask
    \/ UpdateTaskByExternalID
    \/ DeleteTask
    \/ DeleteTaskByExternalID
    \/ CreateWebhook
    \/ RequestDataAndForm
    \/ Request
    \/ CreateTask
    \/ PagenatePath
    \/ RequestMethod
    \/ RequestFail
    \/ RequestSend
    \/ PagenateStep
    \/ GetWebhooksStep
    \/ GetStep
    \/ ExecStep
    \/ Finish

Spec == Init /\ [][Next]_vars

(***************************************************************************)
(* Two operations on one Client, each in a goroutine of its own.  The      *)
(* variables pc .. result and heap.copy hold the locals of the goroutine   *)
(* that is scheduled, other holds those of the goroutine that is not; the  *)
(* Client, the caller's Filter and the default-field table are shared.     *)
(***************************************************************************)
Locals ==
    [pc |-> pc, op |-> op, optRef |-> optRef, acc |-> acc, sent |-> sent,
     pages |-> pages, lastResp |-> lastResp, lastOut |-> lastOut,
     result |-> result, copy |-> heap.copy, bodies |-> bodies]

\* the scheduler takes the other goroutine.  A panic that is not recovered
\* ends the process: after it no goroutine takes a step.
Switch ==
    /\ pc # "panic"
    /\ other' = Locals
    /\ pc' = other.pc
    /\ op' = other.op
    /\ optRef' = other.optRef
    /\ acc' = other.acc
    /\ sent' = other.sent
    /\ pages' = other.pages
    /\ lastResp' = other.lastResp
    /\ lastOut' = other.lastOut
    /\ result' = other.result
    /\ heap' = [heap EXCEPT !.copy = other.copy]
    /\ bodies' = other.bodies
    /\ UNCHANGED <<filter0, client, cf>>

\* the answers of the server in the runs of two operations
ConcResponses ==
    { r \in Responses :
        \/ r.tfail = "context canceled"
        \/ /\ r.tfail = ""
           /\ r.status = 200
           /\ r.kind = "ok"
           /\ r.errors = <<>>
           /\ <<r.data, r.next>> \in { <<<<"a", "b">>, Cursor("off1")>>,
                                       <<<<"c">>, NoCursor>> }
        \/ /\ r.tfail = ""
           /\ r.status = 404
           /\ r.kind = "ok"
           /\ r.errors = <<E1>>
           /\ ~r.next.present }

NextConc ==
    \/ ListTasks
    \/ GetWebhooks
    \/ UpdateTask
    \/ DeleteTask
    \/ RequestSend
    \/ PagenateStepOn(ConcResponses)
    \/ GetWebhooksStepOn(ConcResponses)
    \/ GetStepOn(ConcResponses)
    \/ ExecStepOn(ConcResponses)
    \/ Finish
    \/ Switch

SpecConc == Init /\ [][NextConc]_vars

(***************************************************************************)
(* Task.GetCustomFieldValue on its own: a task with some custom fields and *)
(* a name are chosen, then the method is called                            *)
(***************************************************************************)
InitCF ==
    /\ pc = "idle"
    /\ op = NoOp
    /\ heap = [caller |-> ZeroFilter, copy |-> ZeroFilter]
    /\ filter0 = ZeroFilter
    /\ optRef = "nil"
    /\ acc = <<>>
    /\ sent = <<>>
    /\ pages = <<>>
    /\ lastResp = NoResponse
    /\ lastOut = NoOut
    /\ result = NoResult
    /\ client = NewClient("doer")
    /\ other = IdleLocals
    /\ bodies = <<>>
    /\ \E cfs \in FieldLists, name \in FieldNames :
         cf = [task |-> cfs, name |-> name, called |-> FALSE,
               value |-> "", err |-> ""]

GetCustomFieldValue ==
    /\ ~cf.called
    /\ cf' = [cf EXCEPT !.called = TRUE,
                        !.value = GetCustomFieldValueFrom(cf.task, cf.name).value,
                        !.err = GetCustomFieldValueFrom(cf.task, cf.name).err]
    /\ UNCHANGED <<pc, op, heap, filter0, optRef, acc, sent, pages, lastResp,
                   lastOut, result, client, other, bodies>>

NextCF == GetCustomFieldValue

SpecCF == InitCF /\ [][NextCF]_vars

(***************************************************************************)
(* Properties                                                              *)
(***************************************************************************)
IsListOp == op.kind \in {"pagenate", "webhooks"}

RECURSIVE Flatten(_)
\* page1 ++ page2 ++ ... ++ pageN
Flatten(ps) == IF ps = <<>> THEN <<>> ELSE Head(ps).data \o Flatten(Tail(ps))

\* pages 1..N-1 carry a cursor and page N carries none
CursorChain(ps) ==
    \A i \in 1..Len(ps) : ps[i].next.present <=> i < Len(ps)

\* every request sent so far has been answered by a successful page
AllPagesSucceeded == Len(sent) >= 1 /\ Len(pages) = Len(sent)

\* the offset query parameter of a request ("" when it carries none)
OffsetParam(req) ==
    IF "offset" \in DOMAIN req.query THEN req.query["offset"] ELSE ""

\* the opt_fields query parameter of a request ("" when it carries none)
OptFieldsParam(req) ==
    IF "opt_fields" \in DOMAIN req.query THEN req.query["opt_fields"] ELSE ""

\* the last request was answered, and not by a successful page
LastPageFailed ==
    /\ pc # "wait"
    /\ Len(sent) >= 1
    /\ ~IsSuccessPage(lastResp)

\* C1: a list operation called with a caller-supplied Filter that was served
\* N >= 1 successful pages, the first N-1 with a cursor and the last without,
\* has returned, without error, the concatenation page1 ++ ... ++ pageN in
\* the server's order.
C1_Concatenation ==
    (/\ IsListOp
     /\ op.opt = "caller"
     /\ AllPagesSucceeded
     /\ CursorChain(pages))
    => (/\ pc = "done"
        /\ result.returned
        /\ result.err = NoErr
        /\ ~result.isNil
        /\ result.value = Flatten(pages))

\* the example of the specification: pages [{a,b},{c}], cursors off1 then none
C1_Witness ==
    /\ IsListOp
    /\ op.opt = "caller"
    /\ pc = "done"
    /\ pages = << [data |-> <<"a", "b">>, next |-> Cursor("off1")],
                  [data |-> <<"c">>, next |-> NoCursor] >>
    /\ result.value = <<"a", "b", "c">>

\* the requests of a list operation follow the cursors: request 1 carries
\* the offset of the Filter passed (none for an absent Filter), request i+1
\* the offset of page i's cursor; the operation ends only on a page without
\* cursor (or a failure) and sends nothing after it
RequestsFollowCursors ==
    /\ Len(sent) <= Len(pages) + 1
    /\ Len(sent) >= 1 =>
         OffsetParam(sent[1]) = IF op.opt = "caller" THEN filter0.Offset ELSE ""
    /\ \A i \in 1..Len(sent) - 1 :
         /\ pages[i].next.present
         /\ OffsetParam(sent[i + 1]) = pages[i].next.offset
    /\ (pc \in {"done", "panic"} /\ AllPagesSucceeded) =>
         (pc = "done" /\ CursorChain(pages))
    /\ (AllPagesSucceeded /\ ~pages[Len(pages)].next.present) => pc = "done"

\* C2: for a list operation over N pages with cursors C1..C(N-1) and none on
\* page N exactly N requests reach the transport: request 1 with the caller's
\* offset, request i+1 with the offset of cursor Ci, none after page N.
C2_ExactlyNRequests == IsListOp => RequestsFollowCursors

\* the part of C2 that the code satisfies: the same, for a Filter that is
\* not nil
C2_WithFilter == (IsListOp /\ op.opt = "caller") => RequestsFollowCursors

\* C3: when page k of a list operation carries error records, the operation
\* has returned a failure after exactly k calls of the transport, also when
\* that page carried a next_page cursor.
C3_ErrorPageStops ==
    (/\ IsListOp
     /\ pc # "wait"
     /\ lastResp.tfail = ""
     /\ lastResp.errors # <<>>)
    => (/\ pc = "done"
        /\ result.returned
        /\ result.err # NoErr
        /\ Len(sent) = Len(pages) + 1)

\* page 2 carries error records and a cursor, and the operation is over
C3_Witness ==
    /\ IsListOp
    /\ pc = "done"
    /\ Len(pages) = 1
    /\ Len(sent) = 2
    /\ lastResp.status = 200
    /\ lastResp.errors # <<>>
    /\ lastResp.next.present
    /\ result.err # NoErr

\* C4: a response with status 401 yields ErrUnauthorized and no cursor,
\* whatever its body holds.
C4_Unauthorized ==
    (lastResp.tfail = "" /\ lastResp.status = StatusUnauthorized)
    => (/\ lastOut.err = ErrUnauthorized
        /\ lastOut.next = NoCursor
        /\ pc = "done"
        /\ result.err = ErrUnauthorized)

\* a 401 whose body is an envelope with error records and a cursor
C4_Witness ==
    /\ lastResp.status = StatusUnauthorized
    /\ lastResp.kind = "ok"
    /\ Len(lastResp.errors) = 2
    /\ lastResp.next.present
    /\ lastOut.err = ErrUnauthorized

\* C5: a response that is not a 401 and whose decoded envelope holds error
\* records makes the request fail with one Errors value carrying all the
\* records in order and the status code, status 200 included.
C5_AggregateErrors ==
    (/\ lastResp.tfail = ""
     /\ lastResp.status # StatusUnauthorized
     /\ lastResp.kind # "syntax"
     /\ Len(lastResp.errors) >= 1)
    => (/\ lastOut.err.kind = "Errors"
        /\ lastOut.err.records = lastResp.errors
        /\ lastOut.err.code = lastResp.status
        /\ pc = "done"
        /\ result.err = lastOut.err)

\* status 200, a well-formed envelope, two error records
C5_Witness ==
    /\ lastResp.status = 200
    /\ lastResp.kind = "ok"
    /\ lastResp.errors = <<E1, E2>>
    /\ lastOut.err.kind = "Errors"
    /\ Len(lastOut.err.records) = 2

\* C6: the Filter object of the caller always has the value the caller gave
\* it: no request and no page of a list operation writes to it.
C6_FilterNotMutated == heap.caller = filter0

\* a list operation on that Filter had the defaults applied and the offset
\* advanced twice
C6_Witness ==
    /\ IsListOp
    /\ op.opt = "caller"
    /\ op.path = "tasks"
    /\ filter0.OptFields = <<>>
    /\ Len(sent) = 3
    /\ optRef = "copy"
    /\ heap.copy.Offset \in Offsets
    /\ OptFieldsParam(sent[3]) # ""

\* the Filter passed has an empty opt_fields list, or no Filter is passed
EmptyOptFields == op.opt = "nil" \/ filter0.OptFields = <<>>

C8_CallerFieldsSent ==
    (op.opt = "caller" /\ filter0.OptFields # <<>>)
    => \A i \in 1..Len(sent) :
         /\ "opt_fields" \in DOMAIN sent[i].query
         /\ sent[i].query["opt_fields"] = JoinWith(filter0.OptFields, ",")

\* the third request of ListTasks, a path with defaults, carries the caller's
\* two fields
C8_Witness ==
    /\ op.path = "tasks"
    /\ op.opt = "caller"
    /\ filter0.OptFields = <<"notes", "name">>
    /\ Len(sent) = 3
    /\ OptFieldsParam(sent[3]) = "notes,name"

\* C9: a list operation called with a nil Filter whose first page carries a
\* cursor goes on like one called with an empty Filter: it does not crash, it
\* sends the follow-up request with the cursor's offset and it returns the
\* concatenation of the pages.
C9_NilFilterPaginates ==
    (IsListOp /\ op.opt = "nil")
    => (/\ pc # "panic"
        /\ RequestsFollowCursors
        /\ (AllPagesSucceeded /\ CursorChain(pages)) =>
             (result.err = NoErr /\ result.value = Flatten(pages)))

\* C10: a list operation that has returned has either returned an error with
\* a nil result, or no error with the concatenation of all the pages; and it
\* has returned an error whenever a page failed.
C10_NoPartialResult ==
    IsListOp =>
      /\ (result.returned /\ result.err # NoErr) =>
           (result.isNil /\ result.value = <<>>)
      /\ (result.returned /\ result.err = NoErr) =>
           (/\ ~result.isNil
            /\ AllPagesSucceeded
            /\ CursorChain(pages)
            /\ result.value = Flatten(pages))
      /\ LastPageFailed =>
           (pc = "done" /\ result.returned /\ result.err # NoErr)

\* two pages were accumulated, the third failed, nothing is returned
C10_Witness ==
    /\ IsListOp
    /\ pc = "done"
    /\ Len(pages) = 2
    /\ acc # <<>>
    /\ LastPageFailed
    /\ result.err.kind = "decode"
    /\ result.isNil

\* C11: one rule decides body and Content-Type of every request: with a
\* payload the body is the JSON envelope {"data": payload} and the type
\* application/json, whatever form came with it; else with a form the body is
\* the form encoding and the type application/x-www-form-urlencoded; else
\* there is no body and no Content-Type.
C11_BodyRule ==
    \A i \in 1..Len(sent) :
      IF op.data # NoData
      THEN /\ sent[i].bodyKind = "json"
           /\ sent[i].body = "{\"data\":" \o op.data \o "}"
           /\ sent[i].contentType = "application/json"
      ELSE IF op.form # NoForm
      THEN /\ sent[i].bodyKind = "form"
           /\ sent[i].body = op.form
           /\ sent[i].contentType = "application/x-www-form-urlencoded"
      ELSE /\ sent[i].bodyKind = "none"
           /\ sent[i].body = ""
           /\ sent[i].contentType = ""

\* a request built from a payload and a form at once: the form is ignored
C11_Witness ==
    /\ op.data # NoData
    /\ op.form # NoForm
    /\ Len(sent) = 1
    /\ sent[1].contentType = "application/json"
    /\ sent[1].body = "{\"data\":{\"notes\":\"n\"}}"

\* C12: every Errors value handed back holds at least one error record, the
\* records of the response; a failure status whose body has no error record
\* (a bare 404) never yields an Errors value.
C12_ErrorsNonEmpty ==
    /\ lastOut.err.kind = "Errors" =>
         /\ Len(lastOut.err.records) >= 1
         /\ lastOut.err.records = lastResp.errors
    /\ (result.returned /\ result.err.kind = "Errors") =>
         Len(result.err.records) >= 1
    /\ (Len(sent) > 0 /\ pc # "wait" /\ lastResp.errors = <<>>) =>
         lastOut.err.kind # "Errors"

\* an operation returned an Errors value for a 404
C12_Witness ==
    /\ result.returned
    /\ result.err.kind = "Errors"
    /\ result.err.code = 404
    /\ Len(result.err.records) = 2

\* a 404 without any error record came back and no Errors value was made
C12_WitnessBare404 ==
    /\ result.returned
    /\ lastResp.status = 404
    /\ lastResp.errors = <<>>
    /\ result.err.kind # "Errors"

\* C13: an error of the transport comes back to the caller as it is, neither
\* wrapped nor turned into another kind, and ends the operation; no error of
\* any kind is followed by another request.  The transport is invoked at most
\* once by an operation without pages and at most once per page otherwise.
C13_TransportErrorUnchanged ==
    /\ (Len(sent) > 0 /\ pc # "wait" /\ lastResp.tfail # "") =>
         /\ lastOut.err = TransportError(lastResp.tfail)
         /\ pc = "done"
         /\ result.returned
         /\ result.err = TransportError(lastResp.tfail)
    /\ (Len(sent) > 0 /\ pc # "wait" /\ lastOut.err # NoErr) =>
         /\ pc = "done"
         /\ result.err = lastOut.err
         /\ Len(sent) = Len(pages) + 1
    /\ Len(sent) <= Len(pages) + 1
    /\ ~IsListOp => Len(sent) <= 1

\* the transport failed on the third page of a paginated operation
C13_Witness ==
    /\ IsListOp
    /\ Len(sent) = 3
    /\ Len(pages) = 2
    /\ lastResp.tfail = "context canceled"
    /\ result.returned
    /\ result.err = TransportError("context canceled")

\* C14: every request handed to the transport, by any operation and on every
\* page, carries the User-Agent "go-asana/0.1", and no operation changes the
\* value the client holds for it.
C14_UserAgent ==
    /\ \A i \in 1..Len(sent) : sent[i].userAgent = "go-asana/0.1"
    /\ client.UserAgent = "go-asana/0.1"

\* the third page of a paginated operation has been requested
C14_Witness ==
    /\ IsListOp
    /\ Len(sent) = 3
    /\ sent[1].userAgent = "go-asana/0.1"
    /\ sent[3].userAgent = "go-asana/0.1"

\* the operation record Start sets up for a call
OpOf(a) ==
    [kind |-> a.kind, method |-> a.method, path |-> PathString(a.segs),
     segs |-> a.segs, data |-> a.data, form |-> a.form, opt |-> a.opt,
     dest |-> <<>>]

\* each alternate-identifier task operation with its primary-identifier twin,
\* called with the same Filter argument and payload
TaskPairs ==
    { <<GetTaskByExternalIDArgs(e, arg), GetTaskArgs(id, arg)>> :
        e \in ExternalIDs, id \in IDs, arg \in OptArgs }
    \cup { <<UpdateTaskByExternalIDArgs(x[1], x[2], arg),
             UpdateTaskArgs(id, x[2], arg)>> :
        x \in ExternalIDs \X TaskUpdates, id \in IDs, arg \in OptArgs }
    \cup { <<DeleteTaskByExternalIDArgs(e, arg), DeleteTaskArgs(id, arg)>> :
        e \in ExternalIDs, id \in IDs, arg \in OptArgs }

\* the request Client.request builds for call a when the caller's Filter is
\* filter0, and what the operation returns for response resp
RequestOf(a) ==
    buildRequest(client, a.method, PathString(a.segs), a.data, a.form,
                 requestOpt([caller |-> filter0, copy |-> ZeroFilter], a.opt,
                            PathString(a.segs)).eff)
ReturnOf(a, resp) ==
    IF a.kind = "get"
    THEN getReturn(requestReturn(resp, <<>>))
    ELSE execReturn(requestReturn(resp, <<>>))

ModuloPath(r) == [r EXCEPT !.path = "", !.url = ""]

\* C15: an alternate-identifier task operation (path
\* tasks/external:{externalID}) sends the request its primary-identifier twin
\* (path tasks/{id}) sends for the same Filter and payload, but for the path:
\* same method, query with the effective opt_fields, headers and body; and for
\* the same response it returns the same error and the same decoded value.
C15_ExternalIDSameButPath ==
    \A p \in TaskPairs :
      op = OpOf(p[1]) =>
        /\ [p[1] EXCEPT !.segs = <<>>] = [p[2] EXCEPT !.segs = <<>>]
        /\ \A i \in 1..Len(sent) :
             /\ ModuloPath(sent[i]) = ModuloPath(RequestOf(p[2]))
             /\ sent[i].path = PathString(p[1].segs)
             /\ sent[i].path # PathString(p[2].segs)
        /\ (result.returned /\ Len(sent) = 1) =>
             result = ReturnOf(p[2], lastResp)

\* UpdateTaskByExternalID with a Filter that carries options got an answer
C15_Witness ==
    /\ op.method = "PUT"
    /\ op.path = "tasks/external:ABC123"
    /\ op.opt = "caller"
    /\ filter0.OptFields # <<>>
    /\ Len(sent) = 1
    /\ "opt_fields" \in DOMAIN sent[1].query
    /\ result.returned
    /\ result.err = NoErr

\* What an operation with locals l does when it runs alone: its i-th request
\* is built from the Filter it was called with, carrying from the second
\* request on the offset of the cursor of the page before, and its result is
\* the one its own pages and its own last response give.
AloneFilter(l, i) ==
    LET base == IF l.op.opt = "caller" THEN filter0 ELSE ZeroFilter
    IN  IF i = 1 THEN base
        ELSE [base EXCEPT !.Offset = l.pages[i - 1].next.offset]

AloneRequest(l, i) ==
    buildRequest(NewClient("doer"), l.op.method, l.op.path, l.op.data,
                 l.op.form,
                 requestOpt([caller |-> AloneFilter(l, i), copy |-> ZeroFilter],
                            IF i = 1 THEN l.op.opt ELSE "caller",
                            l.op.path).eff)

AloneResult(l) ==
    LET err == requestBuildErr(l.op.method, l.op.path, l.op.data)
        out == IF err # NoErr
               THEN [next |-> NoCursor, err |-> err, v |-> <<>>]
               ELSE requestReturn(l.lastResp, <<>>)
    IN  CASE l.op.kind = "get" -> getReturn(out)
          [] l.op.kind = "exec" -> execReturn(out)
          [] OTHER -> IF out.err # NoErr
                      THEN listReturn(out.err, <<>>)
                      ELSE listReturn(NoErr, Flatten(l.pages))

AsAlone(l) ==
    /\ Len(l.sent) <= Len(l.pages) + 1
    /\ \A i \in 1..Len(l.sent) : l.sent[i] = AloneRequest(l, i)
    /\ l.result.returned => l.result = AloneResult(l)

\* no step has written the Client, the caller's Filter or (a constant of the
\* model) the default-field table
SharedUnwritten ==
    /\ client = NewClient("doer")
    /\ heap.caller = filter0

\* an operation was under way when the panic of the other one ended the
\* process: it never returns
Stranded == pc = "panic" /\ other.pc \in {"send", "wait"}

\* C16: a Client is safe for concurrent use: in every interleaving of two
\* operations on it, also two list operations given the same Filter, each
\* sends the requests and returns the result it does alone for the same
\* responses, none is kept from returning by the other, and no step writes
\* the Client, the shared Filter or the default-field table.
C16_ConcurrentUse ==
    /\ SharedUnwritten
    /\ AsAlone(Locals)
    /\ AsAlone(other)
    /\ ~Stranded

\* the part of C16 the code satisfies: whatever the interleaving, nothing
\* shared is written and every request and result is the one of a run alone
C16_NoInterference ==
    /\ SharedUnwritten
    /\ AsAlone(Locals)
    /\ AsAlone(other)

\* both goroutines are in the middle of a list operation on the same Filter,
\* each past its first page
C16_Witness ==
    /\ op.kind = "pagenate" /\ other.op.kind \in {"pagenate", "webhooks"}
    /\ op.opt = "caller" /\ other.op.opt = "caller"
    /\ Len(sent) = 2 /\ Len(other.sent) = 2
    /\ pc = "wait" /\ other.pc = "wait"

\* the request could not be built: Client.request returned the error of
\* url.Parse, json.Marshal or http.NewRequest
BuildFailed ==
    /\ pc = "done"
    /\ lastOut.err.kind \in {"url", "marshal", "method"}

\* a list operation ends exactly on a page without cursor or a failed page:
\* after a successful page with a cursor it is about to send the next request,
\* whatever the number of pages so far; after any other answer it has
\* returned; and it has not returned otherwise
EndsOnLastPage ==
    /\ Len(sent) <= Len(pages) + 1
    /\ (AllPagesSucceeded /\ pages[Len(pages)].next.present) => pc = "send"
    /\ (AllPagesSucceeded /\ ~pages[Len(pages)].next.present) =>
         (pc = "done" /\ result.returned)
    /\ LastPageFailed => (pc = "done" /\ result.returned)
    /\ result.returned =>
         \/ LastPageFailed
         \/ AllPagesSucceeded /\ ~pages[Len(pages)].next.present
         \/ BuildFailed

\* C17: a list operation returns exactly when a page carries no cursor or
\* fails, after as many requests as pages; there is no limit on the number
\* of pages: as long as every page carries a cursor it goes on sending
\* requests and does not return.
C17_TerminatesExactly == IsListOp => EndsOnLastPage

\* the part of C17 the code satisfies: the same, for a Filter that is not nil
C17_WithFilter == (IsListOp /\ op.opt = "caller") => EndsOnLastPage

\* a list operation with a Filter is about to send a request after
\* MaxRequests pages that all carried a cursor
C17_WithFilterWitness ==
    /\ IsListOp
    /\ op.opt = "caller"
    /\ Len(pages) = MaxRequests
    /\ pc = "send"

\* the last request was answered by a response other than a 401 whose body
\* is malformed and gave no error record
MalformedBody ==
    /\ Len(sent) >= 1
    /\ pc # "wait"
    /\ lastResp.tfail = ""
    /\ lastResp.status # StatusUnauthorized
    /\ lastResp.kind \in {"type", "syntax"}
    /\ lastResp.errors = <<>>

\* C18: a response other than a 401 with a malformed body that gave no error
\* record makes the request fail with the error of the decoder, which is
\* neither ErrUnauthorized nor an Errors value; a list operation returns that
\* error at once and sends no further request, also when a next_page cursor
\* was decoded from the body.
C18_DecodeError ==
    MalformedBody =>
      /\ lastOut.err = DecodeError(lastResp.kind)
      /\ lastOut.err.kind \notin {"ErrUnauthorized", "Errors", "nil"}
      /\ lastOut.next = lastResp.next
      /\ pc = "done"
      /\ result.returned
      /\ result.err = lastOut.err
      /\ Len(sent) = Len(pages) + 1
      /\ IsListOp => result.isNil

\* the second page of a list operation had a malformed body that carried a
\* cursor
C18_Witness ==
    /\ MalformedBody
    /\ IsListOp
    /\ op.opt = "caller"
    /\ Len(sent) = 2
    /\ lastResp.status = 200
    /\ lastOut.next.present
    /\ result.err.kind = "decode"

\* a request without its offset query parameter
WithoutOffset(req) ==
    [req EXCEPT !.query = [k \in DOMAIN req.query \ {"offset"} |-> req.query[k]]]

\* C19: all the requests of a list operation are GET requests of the same
\* path with the same value for every Filter option but the offset, the
\* effective opt_fields (defaults included) among them: request i+1 differs
\* from request i in the offset query parameter and in nothing else.
C19_OnlyOffsetChanges ==
    IsListOp =>
      \A i \in 1..Len(sent) :
        /\ sent[i].method = "GET"
        /\ sent[i].path = op.path
        /\ WithoutOffset(sent[i]) = WithoutOffset(sent[1])
        /\ \A k \in ParamNames \ {"offset"} :
             k \in DOMAIN sent[i].query =>
               sent[i].query[k] =
                 ParamValue(requestOpt([caller |-> filter0, copy |-> ZeroFilter],
                                       op.opt, op.path).eff, k)
        /\ i > 1 => OffsetParam(sent[i]) = pages[i - 1].next.offset

\* the third request of a list operation whose Filter sets many options
C19_Witness ==
    /\ IsListOp
    /\ Len(sent) = 3
    /\ filter0.Archived
    /\ sent[3].query["archived"] = "true"
    /\ sent[3].query["opt_expand"] = "assignee,parent"
    /\ OffsetParam(sent[1]) = "off0"
    /\ OffsetParam(sent[2]) = "off1"
    /\ OffsetParam(sent[3]) = "off2"

\* the second request of a list operation on the path "tasks" whose Filter
\* names no fields carries the default fields again
C19_WitnessDefaults ==
    /\ op.kind = "pagenate"
    /\ op.path = "tasks"
    /\ filter0.OptFields = <<>>
    /\ Len(sent) = 2
    /\ OptFieldsParam(sent[2]) # ""
    /\ OptFieldsParam(sent[2]) = OptFieldsParam(sent[1])

\* the requests of the operation the transport has not answered yet
InFlight == IF pc = "wait" THEN {Len(sent)} ELSE {}

\* C20: the requests of one operation are strictly sequential: a request is
\* handed to the transport only when none of the operation is in flight, and
\* request i+1 only after the response to request i has been received and
\* found to be a success that carries a cursor.
C20_Sequential ==
    [][Len(sent') = Len(sent) + 1 =>
         /\ InFlight = {}
         /\ InFlight' = {Len(sent) + 1}
         /\ Len(pages) = Len(sent)
         /\ Len(sent) >= 1 =>
              /\ IsListOp
              /\ IsSuccessPage(lastResp)
              /\ lastResp.next.present
              /\ lastOut.err = NoErr
              /\ lastOut.next = lastResp.next]_vars

\* the third request of a list operation is in flight, the first two
\* answered by pages with a cursor
C20_Witness ==
    /\ IsListOp
    /\ pc = "wait"
    /\ Len(sent) = 3
    /\ Len(pages) = 2
    /\ pages[2].next.present

\* the operation under way was called with a path url.Parse rejects, a
\* payload json.Marshal rejects or a method http.NewRequest rejects
CannotBuild ==
    /\ op # NoOp
    /\ \/ ~validEscapes(op.path)
       \/ op.data # NoData /\ ~jsonSupported(op.data)
       \/ ~validMethod(op.method)

\* no request of an operation whose request cannot be built reaches the
\* transport, and the operation returns the error of the construction
BuildFailureReturned ==
    /\ CannotBuild =>
         /\ sent = <<>>
         /\ lastResp = NoResponse
         /\ pc \in {"send", "done"}
         /\ pc = "done" =>
              /\ BuildFailed
              /\ lastOut.next = NoCursor
              /\ result.returned
              /\ result.err = lastOut.err
              /\ result.err # NoErr
              /\ IsListOp => result.isNil
    /\ BuildFailed =>
         /\ CannotBuild
         /\ lastOut.err.kind = "url" <=> ~validEscapes(op.path)

\* C21: when the request cannot be built (path, payload or method), the
\* error of the construction is what the operation returns, in its next step,
\* and the transport is not called for that request; a list operation ends
\* with that error and a nil result.
C21_BuildFailure ==
    /\ []BuildFailureReturned
    /\ [][(CannotBuild /\ pc = "send") => pc' = "done"]_vars

\* a list operation whose path does not parse has returned the error of
\* url.Parse without a request
C21_Witness ==
    /\ IsListOp
    /\ op.path = "tasks/external:50%/stories"
    /\ pc = "done"
    /\ sent = <<>>
    /\ result.err = UrlError("tasks/external:50%/stories")

\* CreateTask with a payload that has no JSON encoding has returned the
\* error of json.Marshal without a request
C21_WitnessMarshal ==
    /\ op.method = "POST"
    /\ op.data = UnsupportedValue
    /\ pc = "done"
    /\ sent = <<>>
    /\ result.err = MarshalError

\* a request with a method that is not a token has returned the error of
\* http.NewRequest without calling the transport
C21_WitnessMethod ==
    /\ op.method = "BAD METHOD"
    /\ pc = "done"
    /\ sent = <<>>
    /\ result.err = MethodError("BAD METHOD")

\* the first custom field called name whose type is enum, text or number;
\* 0 when there is none
FirstField(cfs, name) ==
    LET hits == { i \in 1..Len(cfs) :
                    /\ cfs[i].Name = name
                    /\ cfs[i].Type \in {"enum", "text", "number"} }
    IN  IF hits = {} THEN 0
        ELSE CHOOSE i \in hits : \A j \in hits : i <= j

\* GetCustomFieldValue gives the enum value's name or the text value of the
\* first field of that name and one of the three types, and the error
\* "Custom field '<name>' not found" with an empty string exactly when there
\* is no such field
EnumTextAndNotFound ==
    cf.called =>
      LET i == FirstField(cf.task, cf.name)
      IN  /\ i = 0 <=> cf.err # ""
          /\ i = 0 =>
               /\ cf.value = ""
               /\ cf.err = "Custom field '" \o cf.name \o "' not found"
          /\ (i # 0 /\ cf.task[i].Type = "enum") =>
               cf.value = cf.task[i].EnumValue.Name
          /\ (i # 0 /\ cf.task[i].Type = "text") =>
               cf.value = cf.task[i].TextValue

\* C22: GetCustomFieldValue(name) returns, for the first custom field called
\* name whose type is enum, text or number, the enum value's name, the text
\* value, or the decimal representation of the number value, without error;
\* and the error "Custom field '<name>' not found" with an empty string
\* exactly when there is no such field.
C22_CustomFieldValue ==
    /\ EnumTextAndNotFound
    /\ cf.called =>
         LET i == FirstField(cf.task, cf.name)
         IN  (i # 0 /\ cf.task[i].Type = "number") =>
               cf.value = ToString(cf.task[i].NumberValue)

\* the part of C22 the code satisfies: all of it but the number values
C22_EnumTextAndNotFound == EnumTextAndNotFound

\* what the code returns for a number value: the character whose code point
\* the number is
C22_NumberAsRune ==
    cf.called =>
      LET i == FirstField(cf.task, cf.name)
      IN  (i # 0 /\ cf.task[i].Type = "number") =>
            cf.value = RuneString(cf.task[i].NumberValue)

\* the number 42 came back as "*"
C22_WitnessNumber ==
    /\ cf.called
    /\ Len(cf.task) = 2
    /\ cf.task[1].Type = "people"
    /\ cf.task[1].Name = cf.name
    /\ cf.task[2].Type = "number"
    /\ cf.task[2].Name = cf.name
    /\ cf.task[2].NumberValue = 42
    /\ cf.value = "*"
    /\ cf.err = ""

\* the content of the destination Client.request was handed: the caller's
\* for Client.Request, a new value or a remade page otherwise
Destination == IF IsListOp THEN <<>> ELSE op.dest

\* the last request was answered by a response whose status is not 401
AnsweredNot401 ==
    /\ Len(sent) >= 1
    /\ pc # "wait"
    /\ lastResp.tfail = ""
    /\ lastResp.status # StatusUnauthorized

\* two results of Client.request that differ at most in the Code of an
\* Errors value
SameButCode(o1, o2) ==
    /\ o1.next = o2.next
    /\ o1.v = o2.v
    /\ [o1.err EXCEPT !.code = 0] = [o2.err EXCEPT !.code = 0]

\* C23: the status of a response matters through the 401 case alone: what
\* Client.request made of a response whose status is not 401 is what it makes
\* of the same body under any other status that is not 401 (the same data
\* and cursor, the same decode error, or an Errors value of the same
\* records) but for the Code of an Errors value, which is the status; and an
\* error status with an envelope free of errors is a success.
C23_StatusOnlyVia401 ==
    AnsweredNot401 =>
      /\ \A st \in Statuses \ {StatusUnauthorized} :
           SameButCode(lastOut,
                       requestReturn([lastResp EXCEPT !.status = st],
                                     Destination))
      /\ lastOut.err.kind = "Errors" => lastOut.err.code = lastResp.status
      /\ lastOut.err.kind # "Errors" => lastOut.err.code = 0
      /\ (lastResp.kind = "ok" /\ lastResp.errors = <<>>) =>
           /\ lastOut.err = NoErr
           /\ lastOut.v = lastResp.data
           /\ lastOut.next = lastResp.next

\* a 404 with an envelope free of errors that carries data and a cursor was
\* taken for a success: the list operation goes on to the next page
C23_Witness ==
    /\ AnsweredNot401
    /\ IsListOp
    /\ lastResp.status = 404
    /\ lastResp.kind = "ok"
    /\ lastResp.errors = <<>>
    /\ lastResp.data = <<"a", "b">>
    /\ lastResp.next.present
    /\ lastOut.err = NoErr
    /\ pc = "send"

\* the last call of Client.request ended before the body was decoded: the
\* request could not be built, the transport failed or the status was 401
EndedBeforeDecode ==
    \/ BuildFailed
    \/ /\ Len(sent) >= 1
       /\ pc # "wait"
       /\ \/ lastResp.tfail # ""
          \/ lastResp.status = StatusUnauthorized

\* C24: after a transport failure, a construction failure or a 401 the
\* destination holds what it held before the call, and a get-one operation
\* returns the zero value of its resource with the error.
C24_DestinationUntouched ==
    EndedBeforeDecode =>
      /\ lastOut.v = Destination
      /\ lastOut.err # NoErr
      /\ op.kind = "get" =>
           /\ result.returned
           /\ result.value = <<>>
           /\ result.err = lastOut.err

\* a get-one operation answered by a 401 whose body holds data has returned
\* the zero value
C24_Witness ==
    /\ op.kind = "get"
    /\ op.method = "GET"
    /\ Len(sent) = 1
    /\ lastResp.status = StatusUnauthorized
    /\ lastResp.kind = "ok"
    /\ lastResp.data = <<"a", "b">>
    /\ result.returned
    /\ result.value = <<>>
    /\ result.err = ErrUnauthorized

\* Client.Request with a container that held something: it still holds it
\* after a transport failure, and after a construction failure
C24_WitnessTransport ==
    /\ op.dest = <<"old">>
    /\ lastResp.tfail # ""
    /\ lastOut.v = <<"old">>
    /\ result.err.kind = "transport"

C24_WitnessBuild ==
    /\ op.dest = <<"old">>
    /\ BuildFailed
    /\ lastOut.v = <<"old">>
    /\ result.err.kind = "url"

\* the last call of Client.request decoded the body of its response
Decoded ==
    /\ Len(sent) >= 1
    /\ pc # "wait"
    /\ ~BuildFailed
    /\ lastResp.tfail = ""
    /\ lastResp.status # StatusUnauthorized

\* the error records the decoder took out of the last response
DecodedErrors == Decode(lastResp, Destination).errors

\* C25: when decoding fails but left at least one error record, the call
\* returns the Errors value with those records and the status code, and not
\* the decode error; the decode error is returned only when no record was
\* decoded.
C25_ErrorsBeforeDecodeError ==
    Decoded =>
      /\ (Decode(lastResp, Destination).err # NoErr /\ Len(DecodedErrors) > 0)
           => lastOut.err = ErrorsOf(DecodedErrors, lastResp.status)
      /\ lastOut.err.kind = "decode"
           => /\ DecodedErrors = <<>>
              /\ lastOut.err = Decode(lastResp, Destination).err

\* a body of the wrong type with two error records was answered by Errors
C25_Witness ==
    /\ Decoded
    /\ lastResp.kind = "type"
    /\ lastResp.errors = <<E2, E1>>
    /\ lastOut.err = ErrorsOf(<<E2, E1>>, lastResp.status)
    /\ result.returned
    /\ result.err.kind = "Errors"

\* a body of the wrong type without error records was answered by the decode
\* error
C25_WitnessDecodeError ==
    /\ Decoded
    /\ lastResp.kind = "type"
    /\ lastResp.errors = <<>>
    /\ lastOut.err = DecodeError("type")

\* the number of requests of the running operation the transport has
\* answered with a response
ResponsesReceived ==
    Len(sent) - (IF pc = "wait" THEN 1 ELSE 0)
              - (IF lastResp.tfail # "" THEN 1 ELSE 0)

\* C26: the body of every response the transport returned is closed exactly
\* once by the time Client.request returns, whatever the outcome and on every
\* page; a transport failure closes nothing; when the operation has returned
\* no body is open.
C26_BodyClosedOnce ==
    /\ Len(bodies) = ResponsesReceived
    /\ \A i \in 1..Len(bodies) : bodies[i] = 1
    /\ (Len(sent) >= 1 /\ pc # "wait" /\ lastResp.tfail # "")
         => /\ Len(bodies) = Len(sent) - 1
            /\ lastOut.err.kind = "transport"
    /\ BuildFailed => Len(bodies) = Len(sent)

\* a paginated operation has returned after a data page and a 401: both
\* bodies were closed once
C26_Witness ==
    /\ pc = "done"
    /\ IsListOp
    /\ Len(sent) = 2
    /\ Len(pages) = 1
    /\ lastResp.tfail = ""
    /\ lastResp.status = StatusUnauthorized
    /\ bodies = <<1, 1>>

\* the second page failed in the transport: one body, closed once
C26_WitnessTransport ==
    /\ pc = "done"
    /\ Len(sent) = 2
    /\ lastResp.tfail # ""
    /\ bodies = <<1>>

\* bodies closed after application errors and after a decode failure
C26_WitnessErrors ==
    /\ pc = "done"
    /\ lastOut.err.kind = "Errors"
    /\ bodies = <<1>>

C26_WitnessDecode ==
    /\ pc = "done"
    /\ lastOut.err.kind = "decode"
    /\ Len(bodies) >= 2
    /\ \A i \in 1..Len(bodies) : bodies[i] = 1

====
